---------------------------- MODULE Spec2Model ----------------------------
(***************************************************************************)
(* Salary-Prediction: the data cleaner and dataset merger of src/utils.py, *)
(* the drift detection of src/drift_detector.py and the retraining         *)
(* pipeline of automated_pipeline.py.                                      *)
(*                                                                         *)
(* A CSV file is a record [cols, rows]; a DataFrame is a record           *)
(* [cols, kind, rows] whose kind (dtype) is fixed when the file is read.  *)
(* A cell is an integer: NA is the missing value (NaN), a numeric cell is *)
(* a positive number, a categorical cell is the code of its string.       *)
(***************************************************************************)
EXTENDS Integers, Sequences, FiniteSets, TLC

\* ------------------------------------------------------------------ bounds
\* rows of the dataset handed to clean_data in CleanSpec
MaxCleanRows == 3
\* rows of each of the two datasets handed to merge_new_data in MergeSpec
MaxMergeRows == 2

\* ------------------------------------------------------- tabular datasets
NA == 0
\* the mode placeholder of clean_data: the code of the string "Unknown"
Unknown == 99

Target == "Salary"
NumericCols == {"Exp", "Salary"}
CategoricalCols == {"City"}

Range(s) == {s[i] : i \in 1..Len(s)}

\* all sequences over S of length at most n
SeqUpTo(S, n) == UNION {[1..k -> S] : k \in 0..n}

\* the values a cell of column c takes in the enumerated inputs
CellValues(c) ==
  IF c = "Exp" THEN {NA, 2, 4}
  ELSE IF c = "City" THEN {NA, 1, 2}
  ELSE {NA, 1}

RowsOver(cols) == {r \in [Range(cols) -> {NA, 1, 2, 4}] :
                     \A c \in Range(cols) : r[c] \in CellValues(c)}

\* a field of a file is a text. In a categorical column the codes 1, 2 and
\* Unknown stand for names; every other field reads as a number
IsName(c, v) == c \in CategoricalCols /\ v \in {1, 2, Unknown}

\* the string whose text is the number v, as opposed to the number v
StrOf(v) == v + 100

\* pd.read_csv: a column is of dtype object when it holds a field that is
\* not a number or when the file has no data row, and numeric (float64)
\* when it holds only numbers or only missing values
InferKind(cols, rows) ==
  [c \in Range(cols) |->
     IF rows = <<>> THEN "object"
     ELSE IF \E i \in 1..Len(rows) : IsName(c, rows[i][c])
     THEN "object" ELSE "number"]

\* pd.read_csv: in a column of dtype object a field that reads as a number
\* stays the string it is; in a numeric column it is the number
ParseCells(cols, kind, rows) ==
  [i \in 1..Len(rows) |->
     [c \in Range(cols) |->
        IF kind[c] = "object" /\ rows[i][c] # NA /\ ~IsName(c, rows[i][c])
        THEN StrOf(rows[i][c]) ELSE rows[i][c]]]

\* no file at the path
Absent == [cols |-> <<"absent">>, rows |-> <<>>]
\* a file pd.read_csv cannot parse
Malformed == [cols |-> <<"malformed">>, rows |-> <<>>]
\* a file of no bytes: what open(path, "w") leaves before anything is written
EmptyFile == [cols |-> <<>>, rows |-> <<>>]

NoFrame == [cols |-> <<>>, kind |-> <<>>, rows |-> <<>>]

load_data(file) ==
  IF file = Absent THEN [err |-> "FileNotFoundError", df |-> NoFrame]
  ELSE IF file = Malformed THEN [err |-> "ParserError", df |-> NoFrame]
  ELSE IF file = EmptyFile THEN [err |-> "EmptyDataError", df |-> NoFrame]
  ELSE [err |-> "none",
        df |-> [cols |-> file.cols, kind |-> InferKind(file.cols, file.rows),
                rows |-> ParseCells(file.cols, InferKind(file.cols, file.rows),
                                    file.rows)]]

\* DataFrame.to_csv(index=False): the dtypes are not part of the file, and
\* a number and the string of its digits are written as the same text
to_csv(df) ==
  [cols |-> df.cols,
   rows |-> [i \in 1..Len(df.rows) |->
               [c \in Range(df.cols) |->
                  IF df.rows[i][c] > StrOf(0) THEN df.rows[i][c] - StrOf(0)
                  ELSE df.rows[i][c]]]]

\* DataFrame.dropna(subset=[c])
DropNaSubset(rows, c) == SelectSeq(rows, LAMBDA r : r[c] # NA)

\* DataFrame.dropna(how="all"): only a row with no present value goes
DropNaAll(rows) == SelectSeq(rows, LAMBDA r : \E c \in DOMAIN r : r[c] # NA)

\* DataFrame.dropna()
DropNaAny(rows) == SelectSeq(rows, LAMBDA r : \A c \in DOMAIN r : r[c] # NA)

\* DataFrame.drop_duplicates(): the first of equal rows is kept (NaN = NaN)
DropDuplicates(rows) ==
  LET F[i \in 0..Len(rows)] ==
        IF i = 0 THEN <<>>
        ELSE IF \E j \in 1..(i - 1) : rows[j] = rows[i]
             THEN F[i - 1]
             ELSE Append(F[i - 1], rows[i])
  IN F[Len(rows)]

\* DataFrame.duplicated().sum()
CountDuplicates(rows) == Len(rows) - Len(DropDuplicates(rows))

\* the present values of column c, in row order
Present(rows, c) ==
  LET F[i \in 0..Len(rows)] ==
        IF i = 0 THEN <<>>
        ELSE IF rows[i][c] # NA THEN Append(F[i - 1], rows[i][c]) ELSE F[i - 1]
  IN F[Len(rows)]

\* the number of elements of s that are at most v
CountLeq(s, v) == Cardinality({i \in 1..Len(s) : s[i] <= v})

\* the k-th smallest element of a non-empty s
KthSmallest(s, k) ==
  CHOOSE v \in Range(s) :
    /\ CountLeq(s, v) >= k
    /\ \A w \in Range(s) : CountLeq(s, w) >= k => v <= w

\* Series.median(): NaN (here NA) when no value is present; the numeric
\* inputs are even numbers, so the mean of the two middle values is whole
Median(rows, c) ==
  LET s == Present(rows, c)
      n == Len(s)
  IN IF n = 0 THEN NA
     ELSE IF n % 2 = 1 THEN KthSmallest(s, (n + 1) \div 2)
     ELSE (KthSmallest(s, n \div 2) + KthSmallest(s, n \div 2 + 1)) \div 2

\* Series.mode()[0] if not empty else "Unknown": the most frequent present
\* value, the smallest of them on a tie
Mode(rows, c) ==
  LET s == Present(rows, c)
      Count(v) == Cardinality({i \in 1..Len(s) : s[i] = v})
  IN IF Len(s) = 0 THEN Unknown
     ELSE CHOOSE v \in Range(s) :
            \A w \in Range(s) :
              Count(v) > Count(w) \/ (Count(v) = Count(w) /\ v <= w)

\* Series.fillna(v): fillna(NaN) leaves the column as it is
FillNa(rows, c, v) ==
  [i \in 1..Len(rows) |->
     IF rows[i][c] = NA THEN [rows[i] EXCEPT ![c] = v] ELSE rows[i]]

RECURSIVE FillCols(_, _, _, _, _)
\* the two loops of the "fill" branch, over the columns in column order
FillCols(rows, cols, kind, target_col, numeric) ==
  IF cols = <<>> THEN rows
  ELSE LET c == Head(cols)
           filled ==
             IF numeric
             THEN IF kind[c] = "number" /\ c # target_col
                     /\ \E i \in 1..Len(rows) : rows[i][c] = NA
                  THEN FillNa(rows, c, Median(rows, c)) ELSE rows
             ELSE IF kind[c] = "object"
                     /\ \E i \in 1..Len(rows) : rows[i][c] = NA
                  THEN FillNa(rows, c, Mode(rows, c)) ELSE rows
       IN FillCols(filled, Tail(cols), kind, target_col, numeric)

\* DataFrame.drop(columns=[target_col]).isna().sum().sum()
MissingFeatures(rows, target_col) ==
  Cardinality({<<i, c>> \in (1..Len(rows)) \X (IF rows = <<>> THEN {} ELSE DOMAIN rows[1]) :
                 c # target_col /\ rows[i][c] = NA})

\* what clean_data prints: the rows it says it removes for a missing target,
\* for missing feature values and as duplicates, and the records removed
\* in all (lines 41-43, 49-51, 72-74, 77-81); a line not printed is 0
clean_report(df, target_col, remove_duplicates, handle_missing) ==
  LET missing_target ==
        IF target_col \in Range(df.cols)
        THEN Cardinality({i \in 1..Len(df.rows) : df.rows[i][target_col] = NA})
        ELSE 0
      rows1 == IF missing_target > 0
               THEN DropNaSubset(df.rows, target_col) ELSE df.rows
      missing_features ==
        IF handle_missing = "drop" THEN MissingFeatures(rows1, target_col) ELSE 0
      rows2 == IF handle_missing = "drop"
               THEN IF missing_features > 0 THEN DropNaAny(rows1) ELSE rows1
               ELSE IF handle_missing = "fill"
               THEN FillCols(FillCols(rows1, df.cols, df.kind, target_col, TRUE),
                             df.cols, df.kind, target_col, FALSE)
               ELSE rows1
      duplicates == IF remove_duplicates THEN CountDuplicates(rows2) ELSE 0
      rows3 == IF duplicates > 0 THEN DropDuplicates(rows2) ELSE rows2
  IN IF handle_missing = "drop" /\ target_col \notin Range(df.cols)
     THEN [missing_target |-> missing_target, missing_features |-> 0,
           duplicates |-> 0, removed |-> 0]
     ELSE [missing_target |-> missing_target,
           missing_features |-> missing_features,
           duplicates |-> duplicates,
           removed |-> Len(df.rows) - Len(rows3)]

\* clean_data with the duplicates removed before the missing values are
\* handled instead of after
clean_data_dedup_first(df, target_col, remove_duplicates, handle_missing) ==
  LET rows0 == IF remove_duplicates THEN DropDuplicates(df.rows) ELSE df.rows
      rows1 == IF target_col \in Range(df.cols)
               THEN DropNaSubset(rows0, target_col) ELSE rows0
      rows2 == IF handle_missing = "drop"
               THEN IF MissingFeatures(rows1, target_col) > 0
                    THEN DropNaAny(rows1) ELSE rows1
               ELSE IF handle_missing = "fill"
               THEN FillCols(FillCols(rows1, df.cols, df.kind, target_col, TRUE),
                             df.cols, df.kind, target_col, FALSE)
               ELSE rows1
  IN IF handle_missing = "drop" /\ target_col \notin Range(df.cols)
     THEN [err |-> "KeyError", df |-> NoFrame]
     ELSE [err |-> "none", df |-> [df EXCEPT !.rows = rows2]]

\* clean_data: the rows without a target go first, then the missing
\* feature values are dropped or filled, then the duplicates go
clean_data(df, target_col, remove_duplicates, handle_missing) ==
  LET rows1 == IF target_col \in Range(df.cols)
                  /\ \E i \in 1..Len(df.rows) : df.rows[i][target_col] = NA
               THEN DropNaSubset(df.rows, target_col)
               ELSE df.rows
      rows2 == IF handle_missing = "drop"
               THEN IF MissingFeatures(rows1, target_col) > 0
                    THEN DropNaAny(rows1) ELSE rows1
               ELSE IF handle_missing = "fill"
               THEN FillCols(FillCols(rows1, df.cols, df.kind, target_col, TRUE),
                             df.cols, df.kind, target_col, FALSE)
               ELSE rows1
      rows3 == IF remove_duplicates /\ CountDuplicates(rows2) > 0
               THEN DropDuplicates(rows2) ELSE rows2
  IN IF handle_missing = "drop" /\ target_col \notin Range(df.cols)
     THEN [err |-> "KeyError", df |-> NoFrame]
     ELSE [err |-> "none", df |-> [df EXCEPT !.rows = rows3]]

\* pd.concat([old_df, new_df], ignore_index=True): the columns of old_df,
\* then those only new_df has; a cell of a column a frame lacks is NaN
Concat(old_df, new_df) ==
  LET extra == SelectSeq(new_df.cols, LAMBDA c : c \notin Range(old_df.cols))
      cols  == old_df.cols \o extra
      Widen(r) == [c \in Range(cols) |-> IF c \in DOMAIN r THEN r[c] ELSE NA]
  IN [cols |-> cols,
      kind |-> [c \in Range(cols) |->
                  IF c \in Range(old_df.cols) /\ old_df.kind[c] = "object"
                  THEN "object"
                  ELSE IF c \in Range(new_df.cols) /\ new_df.kind[c] = "object"
                  THEN "object" ELSE "number"],
      rows |-> [i \in 1..Len(old_df.rows) |-> Widen(old_df.rows[i])]
               \o [i \in 1..Len(new_df.rows) |-> Widen(new_df.rows[i])]]

\* merge_new_data with the cleaned new data computed but the raw new data
\* concatenated
MergeInputsUncleaned(old_file, new_file, clean_new_data) ==
  LET old == load_data(old_file)
      new == load_data(new_file)
  IN IF old.err # "none" THEN [err |-> old.err, old_df |-> NoFrame, new_df |-> NoFrame]
     ELSE IF new.err # "none" THEN [err |-> new.err, old_df |-> NoFrame, new_df |-> NoFrame]
     ELSE [err |-> "none", old_df |-> old.df, new_df |-> new.df]

\* merge_new_data, lines 129-142: both files are loaded and the new data
\* cleaned (drop policy, duplicates removed) when clean_new_data is set
MergeInputs(old_file, new_file, clean_new_data) ==
  LET old == load_data(old_file)
      new == load_data(new_file)
      cleaned == IF clean_new_data
                 THEN clean_data(new.df, Target, TRUE, "drop")
                 ELSE new
  IN IF old.err # "none" THEN [err |-> old.err, old_df |-> NoFrame, new_df |-> NoFrame]
     ELSE IF new.err # "none" THEN [err |-> new.err, old_df |-> NoFrame, new_df |-> NoFrame]
     ELSE [err |-> cleaned.err, old_df |-> old.df,
           new_df |-> IF cleaned.err = "none" THEN cleaned.df ELSE NoFrame]

\* merge_new_data, lines 144-151: concatenate, then drop the duplicates of
\* the combined frame
Deduplicated(old_df, new_df) ==
  LET merged_df == Concat(old_df, new_df)
  IN [merged_df EXCEPT !.rows = DropDuplicates(merged_df.rows)]

\* merge_new_data without its final validation
NoFinalValidation(merged_df) == merged_df

\* merge_new_data, lines 157-162: the rows without a Salary go
FinalValidation(merged_df) ==
  IF Target \in Range(merged_df.cols)
     /\ \E i \in 1..Len(merged_df.rows) : merged_df.rows[i][Target] = NA
  THEN [merged_df EXCEPT !.rows = DropNaSubset(merged_df.rows, Target)]
  ELSE merged_df

\* merge_new_data up to the frame it writes and returns
merge_new_data(old_file, new_file, clean_new_data) ==
  LET in == MergeInputs(old_file, new_file, clean_new_data)
  IN IF in.err # "none" THEN [err |-> in.err, df |-> NoFrame]
     ELSE [err |-> "none",
           df |-> FinalValidation(Deduplicated(in.old_df, in.new_df))]


\* ------------------------------------------------------- drift detection
\* a fraction is a pair <<numerator, denominator>> with a positive
\* denominator; the statistics below are kept exact
Less(a, b) == a[1] * b[2] < b[1] * a[2]

Abs(x) == IF x < 0 THEN -x ELSE x

RECURSIVE SumOver(_)
\* the sum of the values of a function with a finite domain
SumOver(f) ==
  IF DOMAIN f = {} THEN 0
  ELSE LET x == CHOOSE y \in DOMAIN f : TRUE
       IN f[x] + SumOver([y \in DOMAIN f \ {x} |-> f[y]])

\* the p-value threshold run_drift_detection passes: 0.05
threshold == <<5, 100>>
\* the threshold for categorical drift: 0.2
tvd_threshold == <<1, 5>>

DriftStatus == "Drift Detected"
StableStatus == "Stable"
ErrorStatus == "Error"

\* the lattice paths from (0, 0) to (n, m), one step per observation of
\* either sample, that stay where the two empirical distribution functions
\* differ by less than h / (n * m)
PathsInside(n, m, h) ==
  LET A[i \in 0..n, j \in 0..m] ==
        IF Abs(i * m - j * n) >= h THEN 0
        ELSE IF i = 0 /\ j = 0 THEN 1
        ELSE (IF i > 0 THEN A[i - 1, j] ELSE 0)
             + (IF j > 0 THEN A[i, j - 1] ELSE 0)
  IN A[n, m]

\* scipy.stats.ks_2samp(s1, s2), two-sided and exact: the statistic is the
\* largest distance between the two empirical distribution functions, the
\* p-value the share of the orderings of the pooled sample in which the
\* distance is at least that large; an empty sample raises ValueError
ks_2samp(s1, s2) ==
  LET n == Len(s1)
      m == Len(s2)
      Gap(v) == Abs(CountLeq(s1, v) * m - CountLeq(s2, v) * n)
      pooled == Range(s1) \cup Range(s2)
      h == Gap(CHOOSE v \in pooled : \A w \in pooled : Gap(w) <= Gap(v))
      all == PathsInside(n, m, n * m + 1)
  IN IF n = 0 \/ m = 0
     THEN [err |-> "ValueError", statistic |-> <<>>, p_value |-> <<>>]
     ELSE [err |-> "none",
           statistic |-> <<h, n * m>>,
           p_value |-> IF h = 0 THEN <<1, 1>>
                       ELSE <<all - PathsInside(n, m, h), all>>]

\* detect_data_drift with the comparison of line 52 turned round
NumericVerdictInverted(old, new, col, p_threshold) ==
  LET ks == ks_2samp(Present(old.rows, col), Present(new.rows, col))
  IN IF ks.err # "none"
     THEN [entry |-> [status |-> ErrorStatus, p_value |-> <<>>, statistic |-> <<>>],
           drift |-> FALSE]
     ELSE IF Less(p_threshold, ks.p_value)
     THEN [entry |-> [status |-> DriftStatus, p_value |-> ks.p_value,
                      statistic |-> ks.statistic],
           drift |-> TRUE]
     ELSE [entry |-> [status |-> StableStatus, p_value |-> ks.p_value,
                      statistic |-> ks.statistic],
           drift |-> FALSE]

\* detect_data_drift with a failed test reported as stable
NumericVerdictErrorStable(old, new, col, p_threshold) ==
  LET ks == ks_2samp(Present(old.rows, col), Present(new.rows, col))
  IN IF ks.err # "none"
     THEN [entry |-> [status |-> StableStatus, p_value |-> <<>>, statistic |-> <<>>],
           drift |-> FALSE]
     ELSE IF Less(ks.p_value, p_threshold)
     THEN [entry |-> [status |-> DriftStatus, p_value |-> ks.p_value,
                      statistic |-> ks.statistic],
           drift |-> TRUE]
     ELSE [entry |-> [status |-> StableStatus, p_value |-> ks.p_value,
                      statistic |-> ks.statistic],
           drift |-> FALSE]

\* detect_data_drift with the except branch counting as drift
NumericVerdictErrorDrifts(old, new, col, p_threshold) ==
  LET ks == ks_2samp(Present(old.rows, col), Present(new.rows, col))
  IN IF ks.err # "none"
     THEN [entry |-> [status |-> ErrorStatus, p_value |-> <<>>, statistic |-> <<>>],
           drift |-> TRUE]
     ELSE IF Less(ks.p_value, p_threshold)
     THEN [entry |-> [status |-> DriftStatus, p_value |-> ks.p_value,
                      statistic |-> ks.statistic],
           drift |-> TRUE]
     ELSE [entry |-> [status |-> StableStatus, p_value |-> ks.p_value,
                      statistic |-> ks.statistic],
           drift |-> FALSE]

\* detect_data_drift, lines 50-70: the report entry of a numeric column and
\* whether it sets drift_detected
NumericVerdict(old, new, col, p_threshold) ==
  LET ks == ks_2samp(Present(old.rows, col), Present(new.rows, col))
  IN IF ks.err # "none"
     THEN [entry |-> [status |-> ErrorStatus, p_value |-> <<>>, statistic |-> <<>>],
           drift |-> FALSE]
     ELSE IF Less(ks.p_value, p_threshold)
     THEN [entry |-> [status |-> DriftStatus, p_value |-> ks.p_value,
                      statistic |-> ks.statistic],
           drift |-> TRUE]
     ELSE [entry |-> [status |-> StableStatus, p_value |-> ks.p_value,
                      statistic |-> ks.statistic],
           drift |-> FALSE]

\* Series.value_counts(normalize=True).get(cat, 0) times the number of
\* present values: how often cat occurs
ValueCount(s, cat) == Cardinality({i \in 1..Len(s) : s[i] = cat})

\* the total variation distance without the division by 2
TotalVariationNotHalved(s1, s2) ==
  LET n == IF Len(s1) = 0 THEN 1 ELSE Len(s1)
      m == IF Len(s2) = 0 THEN 1 ELSE Len(s2)
      all_categories == Range(s1) \cup Range(s2)
  IN <<SumOver([cat \in all_categories |->
                  Abs(ValueCount(s1, cat) * m - ValueCount(s2, cat) * n)]),
       n * m>>

\* detect_data_drift, lines 75-80: the proportions of each category among
\* the present values of either sample (none when the sample is empty),
\* and half the sum of their absolute differences
TotalVariation(s1, s2) ==
  LET n == IF Len(s1) = 0 THEN 1 ELSE Len(s1)
      m == IF Len(s2) = 0 THEN 1 ELSE Len(s2)
      all_categories == Range(s1) \cup Range(s2)
  IN <<SumOver([cat \in all_categories |->
                  Abs(ValueCount(s1, cat) * m - ValueCount(s2, cat) * n)]),
       2 * n * m>>

\* detect_data_drift, lines 75-93: the report entry of a categorical column
\* and whether it sets drift_detected
CategoricalVerdict(old, new, col) ==
  LET tvd == TotalVariation(Present(old.rows, col), Present(new.rows, col))
  IN IF Less(tvd_threshold, tvd)
     THEN [entry |-> [status |-> DriftStatus, tvd |-> tvd], drift |-> TRUE]
     ELSE [entry |-> [status |-> StableStatus, tvd |-> tvd], drift |-> FALSE]

RECURSIVE NumericLoop(_, _, _, _, _)
\* detect_data_drift, lines 48-70: the loop over numeric_cols
NumericLoop(cols, old, new, p_threshold, acc) ==
  IF cols = <<>> THEN acc
  ELSE LET col == Head(cols)
           v == NumericVerdict(old, new, col, p_threshold)
       IN NumericLoop(Tail(cols), old, new, p_threshold,
            IF col \in Range(new.cols)
            THEN [drift_report |-> (col :> v.entry) @@ acc.drift_report,
                  drift_detected |-> acc.drift_detected \/ v.drift]
            ELSE acc)

RECURSIVE CategoricalLoop(_, _, _, _)
\* detect_data_drift, lines 73-93: the loop over categorical_cols
CategoricalLoop(cols, old, new, acc) ==
  IF cols = <<>> THEN acc
  ELSE LET col == Head(cols)
           v == CategoricalVerdict(old, new, col)
       IN CategoricalLoop(Tail(cols), old, new,
            IF col \in Range(new.cols)
            THEN [drift_report |-> (col :> v.entry) @@ acc.drift_report,
                  drift_detected |-> acc.drift_detected \/ v.drift]
            ELSE acc)

\* detect_data_drift, line 73: old.select_dtypes(include=['object']).columns
categorical_cols(old) ==
  SelectSeq(old.cols, LAMBDA c : old.kind[c] = "object")

\* detect_data_drift, lines 45-46: the numeric columns of old, "Salary"
\* excluded
numeric_cols(old) ==
  SelectSeq(old.cols, LAMBDA c : old.kind[c] = "number" /\ c # Target)

\* detect_data_drift, lines 30-93 and 143-148: what it returns, or the error
\* pd.read_csv raises
detect_data_drift(old_data_path, new_data_path, p_threshold) ==
  LET nothing == [drift_report |-> <<>>, drift_detected |-> FALSE]
      old == load_data(old_data_path)
      new == load_data(new_data_path)
      out == CategoricalLoop(categorical_cols(old.df), old.df, new.df,
               NumericLoop(numeric_cols(old.df), old.df, new.df, p_threshold,
                           nothing))
  IN IF old_data_path = Absent \/ new_data_path = Absent
     THEN [err |-> "none", drift_report |-> <<>>, drift_detected |-> FALSE]
     ELSE IF old.err # "none" THEN [err |-> old.err] @@ nothing
     ELSE IF new.err # "none" THEN [err |-> new.err] @@ nothing
     ELSE [err |-> "none"] @@ out

\* ------------------------------------------------------------- variables
VARIABLES
  \* clean_data: its argument, its two options, and what it returned for
  \* the argument and for its own output
  \* and what its last call printed
  df, handle_missing, remove_duplicates, df_cleaned, df_recleaned, cpc,
  reported,
  \* merge_new_data: the file at old_data_path, what it held before the
  \* call, the file at new_data_path, the option, the returned frame
  \* and the number of calls made
  old_file, old_before, new_file, clean_new_data, merged, merges,
  \* the pipeline's environment: SEND_TRAINING_EMAIL, NOTIFY_ON_NO_DRIFT,
  \* whether the working directory is the project root, and the files under
  \* the project root that the working directory does not share with it
  SEND_EMAIL, NOTIFY_ON_NO_DRIFT, cwd_is_root, root_data, metrics_root,
  metrics_cwd, model_file,
  \* main(): its position, its locals, the exit code, the steps attempted
  \* and those that failed, the notifications attempted, and whether a
  \* KeyboardInterrupt ended the run
  pc, results, drift_report, drift_detected, metrics, exit_code,
  steps, failed, sent, interrupted

cleanVars == <<df, handle_missing, remove_duplicates, df_cleaned, df_recleaned, cpc,
               reported>>
mergeVars == <<old_file, old_before, new_file, clean_new_data, merged, merges>>
envVars == <<SEND_EMAIL, NOTIFY_ON_NO_DRIFT, cwd_is_root>>
fileVars == <<root_data, metrics_root, metrics_cwd, model_file>>
mainVars == <<pc, results, drift_report, drift_detected, metrics, exit_code,
              steps, failed, sent, interrupted>>
pipeVars == <<envVars, fileVars, mainVars>>
vars == <<cleanVars, mergeVars, pipeVars>>

NoResult == [err |-> "unset", df |-> NoFrame]
NoReport == [missing_target |-> 0, missing_features |-> 0, duplicates |-> 0,
             removed |-> 0]

CleanIdle ==
  /\ df = NoFrame
  /\ handle_missing = "drop"
  /\ remove_duplicates = TRUE
  /\ df_cleaned = NoResult
  /\ df_recleaned = NoResult
  /\ cpc = "idle"
  /\ reported = NoReport

None == "None"

\* main(), lines 204-215: nothing has succeeded yet
NoResults == [drift_detection |-> FALSE, preprocessing |-> FALSE,
              data_merge |-> FALSE, training |-> FALSE,
              evaluation |-> FALSE, notification |-> FALSE]

MainInit ==
  /\ results = NoResults
  /\ drift_report = None
  /\ drift_detected = FALSE
  /\ metrics = None
  /\ exit_code = -1
  /\ steps = <<>>
  /\ failed = {}
  /\ sent = <<>>
  /\ interrupted = FALSE

PipeIdle ==
  /\ SEND_EMAIL = FALSE
  /\ NOTIFY_ON_NO_DRIFT = FALSE
  /\ cwd_is_root = TRUE
  /\ root_data = Absent
  /\ metrics_root = "absent"
  /\ metrics_cwd = "absent"
  /\ model_file = "absent"
  /\ pc = "idle"
  /\ MainInit

MergeIdle ==
  /\ old_file = Absent
  /\ old_before = Absent
  /\ new_file = Absent
  /\ clean_new_data = TRUE
  /\ merged = NoResult
  /\ merges = 0

\* ---------------------------------------------- clean_data on every input
\* the column lists of the datasets handed to clean_data
CleanColumns == {<<"Exp", "City", "Salary">>, <<"City", "Exp">>}

CleanInit ==
  /\ \E cols \in CleanColumns :
       \E rows \in SeqUpTo(RowsOver(cols), MaxCleanRows) :
         df = load_data([cols |-> cols, rows |-> rows]).df
  /\ handle_missing \in {"drop", "fill"}
  /\ remove_duplicates \in BOOLEAN
  /\ df_cleaned = NoResult
  /\ df_recleaned = NoResult
  /\ cpc = "input"
  /\ reported = NoReport
  /\ MergeIdle
  /\ PipeIdle

\* df_cleaned = clean_data(df, "Salary", remove_duplicates, handle_missing)
CleanOnce ==
  /\ cpc = "input"
  /\ df_cleaned' = clean_data(df, Target, remove_duplicates, handle_missing)
  /\ reported' = clean_report(df, Target, remove_duplicates, handle_missing)
  /\ cpc' = "cleaned"
  /\ UNCHANGED <<df, handle_missing, remove_duplicates, df_recleaned, mergeVars, pipeVars>>

\* clean_data applied to the frame it returned, with the same options
CleanAgain ==
  /\ cpc = "cleaned"
  /\ df_cleaned.err = "none"
  /\ df_recleaned' = clean_data(df_cleaned.df, Target, remove_duplicates, handle_missing)
  /\ reported' = clean_report(df_cleaned.df, Target, remove_duplicates, handle_missing)
  /\ cpc' = "recleaned"
  /\ UNCHANGED <<df, handle_missing, remove_duplicates, df_cleaned, mergeVars, pipeVars>>

CleanNext == CleanOnce \/ CleanAgain

CleanSpec == CleanInit /\ [][CleanNext]_vars

\* ------------------------------------------ merge_new_data on every input
\* how many times merge_new_data is called on the same two paths
MaxMerges == 2

\* the column list of the reference dataset and those of the new data
RefColumns == <<"City", "Salary">>
NewColumns == {<<"City", "Salary">>, <<"Salary", "City">>,
               <<"Exp", "Salary">>, <<"City">>}

\* the fields of the merged files: a city is missing, a name, or written
\* as a number
MergeRows(cols) ==
  {r \in [Range(cols) -> {NA, 1, 2, 7}] :
     \A c \in Range(cols) :
       r[c] \in IF c = "City" THEN {NA, 1, 7}
                ELSE IF c = "Exp" THEN {NA, 2} ELSE {NA, 1}}

MergeInit ==
  /\ \E rows \in SeqUpTo(MergeRows(RefColumns), MaxMergeRows) :
       old_file = [cols |-> RefColumns, rows |-> rows]
  /\ \E cols \in NewColumns :
       \E rows \in SeqUpTo(MergeRows(cols), MaxMergeRows) :
         new_file = [cols |-> cols, rows |-> rows]
  /\ clean_new_data \in BOOLEAN
  /\ old_before = old_file
  /\ merged = NoResult
  /\ merges = 0
  /\ CleanIdle
  /\ PipeIdle

\* merge_new_data(old_data_path, new_data_path, None, clean_new_data): the
\* merged frame is written over the file at old_data_path and returned; an
\* exception leaves the file as it was
Merge ==
  /\ merges < MaxMerges
  /\ merges' = merges + 1
  /\ old_before' = old_file
  /\ merged' = merge_new_data(old_file, new_file, clean_new_data)
  /\ old_file' = IF merged'.err = "none" THEN to_csv(merged'.df) ELSE old_file
  /\ UNCHANGED <<new_file, clean_new_data, cleanVars, pipeVars>>

MergeNext == Merge

MergeSpec == MergeInit /\ [][MergeNext]_vars


\* ------------------------------------------------------- merge: claims
\* the frames merge_new_data concatenates in the last call
LastInputs == MergeInputs(old_before, new_file, clean_new_data)

\* clean(B): the new data under the drop policy with duplicates removed
CleanedNew == clean_data(load_data(new_file).df, Target, TRUE, "drop")

Merged == merges > 0 /\ merged.err = "none"

ColumnsDiffer == Range(new_file.cols) # Range(old_before.cols)

Occurrences(rows, r) == Cardinality({i \in 1..Len(rows) : rows[i] = r})

NoTwoEqual(rows) == \A i, j \in 1..Len(rows) : rows[i] = rows[j] => i = j

\* C6: whenever the column set of the new dataset differs from that of the
\* reference dataset, the merge fails and produces no merged dataset (read
\* at its weakest: it ends in some error, or at least leaves the reference
\* file as it was); when the column sets match, the columns of the result
\* are those of the reference dataset, in its order
C6_SchemaMismatchFails ==
  merges > 0 =>
    /\ ColumnsDiffer => (merged.err # "none" \/ old_file = old_before)
    /\ (~ColumnsDiffer /\ merged.err = "none") => merged.df.cols = old_before.cols

\* C7: with cleaning enabled, the merged dataset has at most
\* len(A) + len(clean(B)) rows
C7_RowCountBound ==
  (Merged /\ clean_new_data) =>
    Len(merged.df.rows) <= Len(old_before.rows) + Len(CleanedNew.df.rows)

\* the merge ran with cleaning, cleaning removed a row of the new data, and
\* the deduplication removed a row of the combined data
C7_Witness ==
  /\ Merged /\ clean_new_data
  /\ Len(CleanedNew.df.rows) < Len(new_file.rows)
  /\ Len(CleanedNew.df.rows) >= 1
  /\ Len(old_before.rows) >= 1
  /\ Len(merged.df.rows) < Len(old_before.rows) + Len(CleanedNew.df.rows)

\* C8: with the new data cleaned, the merged dataset, returned and written,
\* holds no two equal rows; the deduplication of
\* the combined rows keeps exactly one representative of each distinct row,
\* and every distinct combined row with a Salary is in the merged dataset
\* exactly once (a new row equal to a reference row is collapsed into it)
C8_NoDuplicateRows ==
  (Merged /\ clean_new_data) =>
    LET combined == Concat(LastInputs.old_df, LastInputs.new_df).rows
        deduped  == Deduplicated(LastInputs.old_df, LastInputs.new_df).rows
    IN /\ NoTwoEqual(merged.df.rows)
       /\ NoTwoEqual(old_file.rows)
       /\ \A r \in Range(combined) : Occurrences(deduped, r) = 1
       /\ \A r \in Range(combined) :
            Occurrences(merged.df.rows, r) = IF r[Target] = NA THEN 0 ELSE 1

\* C9: no row of the dataset merge returns and writes lacks its Salary
C9_NoMissingTarget ==
  Merged =>
    /\ \A i \in 1..Len(merged.df.rows) :
         Target \in DOMAIN merged.df.rows[i] /\ merged.df.rows[i][Target] # NA
    /\ \A i \in 1..Len(old_file.rows) :
         Target \in DOMAIN old_file.rows[i] /\ old_file.rows[i][Target] # NA

\* the merge ran without cleaning on a reference dataset and new data that
\* both held a row without Salary, and kept a row
C9_Witness ==
  /\ Merged /\ ~clean_new_data
  /\ \E i \in 1..Len(old_before.rows) : old_before.rows[i][Target] = NA
  /\ Target \in Range(new_file.cols)
  /\ \E i \in 1..Len(new_file.rows) : new_file.rows[i][Target] = NA
  /\ Len(merged.df.rows) >= 1

\* ------------------------------------------------------- clean: claims
\* C10: clean applied to its own output returns that output unchanged, for
\* either policy and either value of remove_duplicates
C10_CleanIdempotent ==
  cpc = "recleaned" => df_recleaned = df_cleaned

\* clean filled a missing value, removed a duplicate, kept two rows, and
\* was applied to its output
C10_Witness ==
  /\ cpc = "recleaned"
  /\ handle_missing = "fill" /\ remove_duplicates
  /\ Target \in Range(df.cols)
  /\ Len(df_cleaned.df.rows) >= 2
  /\ Len(df_cleaned.df.rows) < Len(df.rows)
  /\ \E i \in 1..Len(df.rows) : df.rows[i]["Exp"] = NA /\ df.rows[i][Target] # NA

\* C11: under the drop policy every row of the frame clean_data returns has
\* a present value in every column, the target included
C11_DropLeavesNoMissing ==
  (cpc = "cleaned" /\ handle_missing = "drop" /\ df_cleaned.err = "none")
    => \A i \in 1..Len(df_cleaned.df.rows) :
         \A c \in Range(df_cleaned.df.cols) : df_cleaned.df.rows[i][c] # NA

\* the input had a row without a target, a row with a target and a missing
\* feature value, and a complete row that clean_data kept
C11_Witness ==
  /\ cpc = "cleaned" /\ handle_missing = "drop" /\ df_cleaned.err = "none"
  /\ Target \in Range(df.cols)
  /\ \E i \in 1..Len(df.rows) : df.rows[i][Target] = NA
  /\ \E i \in 1..Len(df.rows) :
       /\ df.rows[i][Target] # NA
       /\ \E c \in Range(df.cols) : df.rows[i][c] = NA
       /\ \E c \in Range(df.cols) \ {Target} : df.rows[i][c] # NA
  /\ Len(df_cleaned.df.rows) = 1

\* C12: clean_data ends without an error for every input dataset and policy,
\* a dataset without the target column included
C12_CleanNeverFails ==
  cpc = "cleaned" => df_cleaned.err = "none"

\* the rows the fill policy is said to return before the duplicates go: the
\* rows with a target, each missing feature value replaced by the median of
\* the present values of a numeric column (NaN when there is none), and by
\* the most frequent value of a categorical column or "Unknown"
FilledAsStated(d) ==
  LET rows1 == IF Target \in Range(d.cols)
               THEN DropNaSubset(d.rows, Target) ELSE d.rows
  IN [i \in 1..Len(rows1) |->
        [c \in Range(d.cols) |->
           IF rows1[i][c] # NA \/ c = Target THEN rows1[i][c]
           ELSE IF c \in CategoricalCols THEN Mode(rows1, c)
           ELSE Median(rows1, c)]]

\* C13: under the fill policy clean_data returns the rows with a target,
\* none dropped for a missing feature value, every missing numeric value
\* replaced by the column's median and every missing categorical value by
\* the column's most frequent value, or by "Unknown" when the column has no
\* present value
C13_FillReplacesEveryMissing ==
  (cpc = "cleaned" /\ handle_missing = "fill")
    => /\ df_cleaned.err = "none"
       /\ df_cleaned.df.rows =
            IF remove_duplicates THEN DropDuplicates(FilledAsStated(df))
            ELSE FilledAsStated(df)

\* the rows clean_data removes at each stage under the drop policy
RemovedForTarget(d) ==
  IF Target \in Range(d.cols)
  THEN Len(d.rows) - Len(DropNaSubset(d.rows, Target)) ELSE 0
RemovedForFeatures(d) ==
  LET rows1 == IF Target \in Range(d.cols)
               THEN DropNaSubset(d.rows, Target) ELSE d.rows
  IN Len(rows1) - Len(DropNaAny(rows1))

\* C14: under the drop policy the count clean_data reports for each stage is
\* the number of rows removed at that stage, and the reported counts sum to
\* the original row count minus the final one
C14_ReportedCountsAreRowsRemoved ==
  (cpc = "cleaned" /\ handle_missing = "drop" /\ df_cleaned.err = "none")
    => /\ reported.missing_target = RemovedForTarget(df)
       /\ reported.missing_features = RemovedForFeatures(df)
       /\ reported.missing_target + reported.missing_features
            + reported.duplicates = Len(df.rows) - Len(df_cleaned.df.rows)

\* ------------------------------------------------ the retraining pipeline
\* train_and_save_model refuses fewer records than this
MinTrainRecords == 10
\* rows of the new-data file of a pipeline run
MaxNewRows == 1

RefRow(i) == [City |-> 1, Salary |-> i]

\* a reference dataset of n distinct complete records
Reference(n) == [cols |-> RefColumns, rows |-> [i \in 1..n |-> RefRow(i)]]

\* data/salary_data.csv before the run: too small to train on, large
\* enough, or not there
PipelineOld == {Reference(MinTrainRecords - 1), Reference(MinTrainRecords), Absent}

\* the rows of a new-data file with the reference columns: a record the
\* reference dataset holds, a fresh one, and one without its city
PipelineNewRows == {RefRow(1), RefRow(MinTrainRecords + 1),
                    [City |-> NA, Salary |-> MinTrainRecords + 2]}

\* data/new_data/latest.csv before the run
PipelineNew ==
  {Absent, Malformed,
   [cols |-> <<"Exp", "Salary">>, rows |-> <<[Exp |-> 2, Salary |-> MinTrainRecords + 1]>>]}
  \cup {[cols |-> RefColumns, rows |-> rows] : rows \in SeqUpTo(PipelineNewRows, MaxNewRows)}

Init ==
  /\ SEND_EMAIL \in BOOLEAN
  /\ NOTIFY_ON_NO_DRIFT \in BOOLEAN
  /\ cwd_is_root \in BOOLEAN
  /\ old_file \in PipelineOld
  /\ new_file \in PipelineNew
  /\ old_before = old_file
  /\ root_data \in IF cwd_is_root THEN {Absent} ELSE PipelineOld
  /\ metrics_root \in {"absent", "old"}
  /\ metrics_cwd \in IF cwd_is_root THEN {"absent"} ELSE {"absent", "old"}
  /\ model_file = metrics_root
  /\ clean_new_data = TRUE
  /\ merged = NoResult
  /\ merges = 0
  /\ pc = "drift"
  /\ MainInit
  /\ CleanIdle

\* the file train_and_save_model loads: data/salary_data.csv under the
\* project root, which is OLD_DATA_PATH only when run from the project root
TrainData == IF cwd_is_root THEN old_file ELSE root_data

\* the file run_evaluation opens: models/metrics.json under the working
\* directory, which is where evaluate_model writes only when run from the
\* project root
MetricsRead == IF cwd_is_root THEN metrics_root ELSE metrics_cwd

Attempt(step) == steps' = Append(steps, step)

\* run_drift_detection, lines 30-38, and main, line 220
DriftSkipped ==
  /\ pc = "drift"
  /\ new_file = Absent \/ old_file = Absent
  /\ Attempt("drift")
  /\ drift_report' = None
  /\ drift_detected' = FALSE
  /\ results' = [results EXCEPT !.drift_detection = TRUE]
  /\ pc' = "preprocess"
  /\ UNCHANGED <<metrics, exit_code, failed, sent, interrupted>>
  /\ UNCHANGED <<cleanVars, mergeVars, envVars, fileVars>>

\* detect_data_drift sending its notification whatever send_email is
DriftNotificationAlways(detected) ==
  IF detected THEN Append(sent, "drift_detected")
  ELSE IF NOTIFY_ON_NO_DRIFT THEN Append(sent, "no_drift")
  ELSE sent

\* detect_data_drift, lines 105-141: the drift or no-drift notification
DriftNotification(detected) ==
  IF ~SEND_EMAIL THEN sent
  ELSE IF detected THEN Append(sent, "drift_detected")
  ELSE IF NOTIFY_ON_NO_DRIFT THEN Append(sent, "no_drift")
  ELSE sent

\* run_drift_detection, lines 40-55, and main, line 220: both files are
\* read and compared, and detect_data_drift sends its notification
DriftAnalyzed ==
  /\ pc = "drift"
  /\ new_file # Absent /\ old_file # Absent
  /\ LET out == detect_data_drift(old_file, new_file, threshold)
     IN /\ out.err = "none"
        /\ drift_report' = out.drift_report
        /\ drift_detected' = out.drift_detected
        /\ sent' = DriftNotification(out.drift_detected)
  /\ Attempt("drift")
  /\ results' = [results EXCEPT !.drift_detection = TRUE]
  /\ pc' = "preprocess"
  /\ UNCHANGED <<metrics, exit_code, failed, interrupted>>
  /\ UNCHANGED <<cleanVars, mergeVars, envVars, fileVars>>

\* run_drift_detection, lines 57-61, and main, line 220: pd.read_csv raises
\* inside detect_data_drift
DriftError ==
  /\ pc = "drift"
  /\ new_file # Absent /\ old_file # Absent
  /\ detect_data_drift(old_file, new_file, threshold).err # "none"
  /\ Attempt("drift")
  /\ failed' = failed \cup {"drift"}
  /\ drift_report' = None
  /\ drift_detected' = FALSE
  /\ results' = [results EXCEPT !.drift_detection = TRUE]
  /\ pc' = "preprocess"
  /\ UNCHANGED <<metrics, exit_code, sent, interrupted>>
  /\ UNCHANGED <<cleanVars, mergeVars, envVars, fileVars>>

\* run_preprocessing and main, line 223
Preprocess ==
  /\ pc = "preprocess"
  /\ Attempt("preprocess")
  /\ results' = [results EXCEPT !.preprocessing = TRUE]
  /\ pc' = "merge"
  /\ UNCHANGED <<drift_report, drift_detected, metrics, exit_code, failed, sent, interrupted>>
  /\ UNCHANGED <<cleanVars, mergeVars, envVars, fileVars>>

\* main, lines 228-230: no new data
MergeSkipped ==
  /\ pc = "merge"
  /\ new_file = Absent
  /\ results' = [results EXCEPT !.data_merge = TRUE]
  /\ pc' = "train"
  /\ UNCHANGED <<drift_report, drift_detected, metrics, exit_code, steps, failed, sent, interrupted>>
  /\ UNCHANGED <<cleanVars, mergeVars, envVars, fileVars>>

\* the pipeline's merge_new_data, lines 93-107, around utils.merge_new_data
\* up to line 166: an exception makes the step fail with nothing written
MergeCompute ==
  /\ pc = "merge"
  /\ new_file # Absent
  /\ Attempt("merge")
  /\ merges' = merges + 1
  /\ merged' = merge_new_data(old_file, new_file, TRUE)
  /\ IF merged'.err = "none"
     THEN /\ pc' = "merge_open"
          /\ UNCHANGED <<results, failed>>
     ELSE /\ pc' = "train"
          /\ results' = [results EXCEPT !.data_merge = FALSE]
          /\ failed' = failed \cup {"merge"}
  /\ UNCHANGED <<drift_report, drift_detected, metrics, exit_code, sent, interrupted>>
  /\ UNCHANGED <<old_file, old_before, new_file, clean_new_data>>
  /\ UNCHANGED <<cleanVars, envVars, fileVars>>

\* utils.merge_new_data, line 168: to_csv opens old_data_path for writing,
\* which empties the file
MergeOpen ==
  /\ pc = "merge_open"
  /\ old_file' = EmptyFile
  /\ pc' = "merge_write"
  /\ UNCHANGED <<old_before, new_file, clean_new_data, merged, merges>>
  /\ UNCHANGED <<results, drift_report, drift_detected, metrics, exit_code, steps, failed, sent, interrupted>>
  /\ UNCHANGED <<cleanVars, envVars, fileVars>>

\* utils.merge_new_data, lines 168-173, and main, line 227: the rows are
\* written and the file closed
MergeWrite ==
  /\ pc = "merge_write"
  /\ old_file' = to_csv(merged.df)
  /\ results' = [results EXCEPT !.data_merge = TRUE]
  /\ pc' = "train"
  /\ UNCHANGED <<old_before, new_file, clean_new_data, merged, merges>>
  /\ UNCHANGED <<drift_report, drift_detected, metrics, exit_code, steps, failed, sent, interrupted>>
  /\ UNCHANGED <<cleanVars, envVars, fileVars>>

\* train_and_save_model, lines 50-67: the data loads, cleans under the drop
\* policy, has its Salary column and at least ten records
Trainable(file) ==
  LET loaded == load_data(file)
      cleaned == clean_data(loaded.df, Target, TRUE, "drop")
  IN /\ loaded.err = "none"
     /\ cleaned.err = "none"
     /\ Target \in Range(cleaned.df.cols)
     /\ Len(cleaned.df.rows) >= MinTrainRecords

\* main, lines 234-248, with evaluation started after a failed training
AfterTrainingNoExit(m) == "evaluate"

\* main, lines 234-248: a run without metrics goes to its failure exit
AfterTraining(m) == IF m = None THEN "train_failed" ELSE "evaluate"

\* run_training, lines 128-132, and main, lines 233-237
TrainFailure ==
  /\ metrics' = None
  /\ failed' = failed \cup {"train"}
  /\ results' = [results EXCEPT !.training = FALSE]
  /\ pc' = AfterTraining(None)

\* train_and_save_model, lines 50-67, raises on the data
TrainRejectsData ==
  /\ pc = "train"
  /\ ~Trainable(TrainData)
  /\ Attempt("train")
  /\ TrainFailure
  /\ UNCHANGED <<drift_report, drift_detected, exit_code, sent, interrupted>>
  /\ UNCHANGED <<cleanVars, mergeVars, envVars, fileVars>>

\* train_and_save_model, lines 73-109: fitting succeeds or raises
TrainFit ==
  /\ pc = "train"
  /\ Trainable(TrainData)
  /\ Attempt("train")
  /\ \E fitted \in BOOLEAN :
       IF fitted
       THEN /\ pc' = "train_save"
            /\ UNCHANGED <<metrics, failed, results>>
       ELSE TrainFailure
  /\ UNCHANGED <<drift_report, drift_detected, exit_code, sent, interrupted>>
  /\ UNCHANGED <<cleanVars, mergeVars, envVars, fileVars>>

\* train_and_save_model, lines 111-114: the model file is replaced
TrainSave ==
  /\ pc = "train_save"
  /\ model_file' = "new"
  /\ pc' = "train_eval"
  /\ UNCHANGED <<root_data, metrics_root, metrics_cwd>>
  /\ UNCHANGED <<results, drift_report, drift_detected, metrics, exit_code, steps, failed, sent, interrupted>>
  /\ UNCHANGED <<cleanVars, mergeVars, envVars>>

\* evaluate_model, lines 23-49, and main, lines 233-234: the metrics are
\* computed and written under the project root, or something raises first
TrainEvaluate ==
  /\ pc = "train_eval"
  /\ \E written \in BOOLEAN :
       IF written
       THEN /\ metrics_root' = "new"
            /\ metrics' = "metrics"
            /\ results' = [results EXCEPT !.training = TRUE]
            /\ pc' = AfterTraining("metrics")
            /\ UNCHANGED failed
       ELSE /\ TrainFailure
            /\ UNCHANGED metrics_root
  /\ UNCHANGED <<root_data, metrics_cwd, model_file>>
  /\ UNCHANGED <<drift_report, drift_detected, exit_code, steps, sent, interrupted>>
  /\ UNCHANGED <<cleanVars, mergeVars, envVars>>

\* main, lines 239-245: the failure notification, whose errors are
\* swallowed, then exit 1
TrainFailedExit ==
  /\ pc = "train_failed"
  /\ sent' = IF SEND_EMAIL THEN Append(sent, "training_failure") ELSE sent
  /\ exit_code' = 1
  /\ pc' = "exited"
  /\ UNCHANGED <<results, drift_report, drift_detected, metrics, steps, failed, interrupted>>
  /\ UNCHANGED <<cleanVars, mergeVars, envVars, fileVars>>

\* run_evaluation, lines 141-162, and main, line 248
Evaluate ==
  /\ pc = "evaluate"
  /\ Attempt("evaluate")
  /\ LET ok == metrics # None /\ MetricsRead # "absent"
     IN /\ results' = [results EXCEPT !.evaluation = ok]
        /\ failed' = IF ok THEN failed ELSE failed \cup {"evaluate"}
  /\ pc' = "notify"
  /\ UNCHANGED <<drift_report, drift_detected, metrics, exit_code, sent, interrupted>>
  /\ UNCHANGED <<cleanVars, mergeVars, envVars, fileVars>>

\* send_notifications, lines 171-173, and main, line 251
NotifyDisabled ==
  /\ pc = "notify"
  /\ ~SEND_EMAIL
  /\ Attempt("notify")
  /\ results' = [results EXCEPT !.notification = TRUE]
  /\ pc' = "summary"
  /\ UNCHANGED <<drift_report, drift_detected, metrics, exit_code, failed, sent, interrupted>>
  /\ UNCHANGED <<cleanVars, mergeVars, envVars, fileVars>>

\* send_notifications, lines 175-189, and main, line 251: the success
\* mail is delivered, refused, or the attempt raises
Notify ==
  /\ pc = "notify"
  /\ SEND_EMAIL
  /\ Attempt("notify")
  /\ sent' = Append(sent, "training_success")
  /\ \E outcome \in {"delivered", "refused", "raised"} :
       /\ results' = [results EXCEPT !.notification = (outcome = "delivered")]
       /\ failed' = IF outcome = "delivered" THEN failed ELSE failed \cup {"notify"}
  /\ pc' = "summary"
  /\ UNCHANGED <<drift_report, drift_detected, metrics, exit_code, interrupted>>
  /\ UNCHANGED <<cleanVars, mergeVars, envVars, fileVars>>

\* main, lines 264-271, with the notification counted in the verdict
ExitCodeWithNotification(r) ==
  IF r.training /\ r.evaluation /\ r.notification THEN 0 ELSE 1

\* main, lines 264-271, with the verdict taken from the training alone
ExitCodeTrainingOnly(r) == IF r.training THEN 0 ELSE 1

\* main, lines 264-271
ExitCode(r) == IF r.training /\ r.evaluation THEN 0 ELSE 1

\* main, lines 257-262: what the summary prints for a step
SummaryLabel(r, step) ==
  IF r[step] THEN "Success"
  ELSE IF step = "drift_detection" THEN "Skipped" ELSE "Failed"

\* main, lines 253-271
Summary ==
  /\ pc = "summary"
  /\ exit_code' = ExitCode(results)
  /\ pc' = "exited"
  /\ UNCHANGED <<results, drift_report, drift_detected, metrics, steps, failed, sent, interrupted>>
  /\ UNCHANGED <<cleanVars, mergeVars, envVars, fileVars>>

\* main, lines 273-275: a KeyboardInterrupt raised in a step. The steps
\* catch every Exception themselves, so the handler of lines 276-289 has
\* nothing to catch; an interrupt during the failure notification is
\* swallowed by the bare except of line 243 and the run exits 1 all the same
Interrupt ==
  /\ pc \in {"drift", "preprocess", "merge", "merge_open", "merge_write",
              "train", "train_save", "train_eval", "evaluate", "notify", "summary"}
  /\ interrupted' = TRUE
  /\ exit_code' = 1
  /\ pc' = "exited"
  /\ UNCHANGED <<results, drift_report, drift_detected, metrics, steps, failed, sent>>
  /\ UNCHANGED <<cleanVars, mergeVars, envVars, fileVars>>

Next ==
  \/ DriftSkipped \/ DriftAnalyzed \/ DriftError
  \/ Preprocess
  \/ MergeSkipped \/ MergeCompute \/ MergeOpen \/ MergeWrite
  \/ TrainRejectsData \/ TrainFit \/ TrainSave \/ TrainEvaluate
  \/ TrainFailedExit
  \/ Evaluate \/ NotifyDisabled \/ Notify
  \/ Summary
  \/ Interrupt

Spec == Init /\ [][Next]_vars


\* ------------------------------------- detect_data_drift on every input
\* rows of each of the two datasets compared in DriftSpec
MaxDriftRows == 4

\* the records the compared datasets are made of; the third has no
\* experience, the fourth no city
DriftRecords == <<[Exp |-> 2, City |-> 1, Salary |-> 1],
                  [Exp |-> 4, City |-> 2, Salary |-> 1],
                  [Exp |-> NA, City |-> 1, Salary |-> 1],
                  [Exp |-> 4, City |-> NA, Salary |-> 1]>>

\* which records a dataset holds, equal records next to each other
DriftContents ==
  {s \in SeqUpTo(1..Len(DriftRecords), MaxDriftRows) :
     \A i \in 1..Len(s) : \A j \in 1..Len(s) : i < j => s[i] <= s[j]}

DriftFile(cols, s) ==
  [cols |-> cols,
   rows |-> [i \in 1..Len(s) |-> [c \in Range(cols) |-> DriftRecords[s[i]][c]]]]

\* the column lists of the reference data and of the new data
DriftOldColumns == {<<"Exp", "City", "Salary">>, <<"City", "Salary">>}
DriftNewColumns == {<<"Exp", "City", "Salary">>, <<"Exp", "Salary">>}

DriftInit ==
  /\ SEND_EMAIL \in BOOLEAN
  /\ NOTIFY_ON_NO_DRIFT = TRUE
  /\ cwd_is_root = TRUE
  /\ old_file \in {DriftFile(cols, s) : cols \in DriftOldColumns, s \in DriftContents}
  /\ new_file \in {DriftFile(cols, s) : cols \in DriftNewColumns, s \in DriftContents}
                   \cup {Absent, EmptyFile}
  /\ old_before = old_file
  /\ root_data = Absent
  /\ metrics_root = "absent"
  /\ metrics_cwd = "absent"
  /\ model_file = "absent"
  /\ clean_new_data = TRUE
  /\ merged = NoResult
  /\ merges = 0
  /\ pc = "drift"
  /\ MainInit
  /\ CleanIdle

\* run_drift_detection alone
DriftNext == DriftSkipped \/ DriftAnalyzed \/ DriftError

DriftSpec == DriftInit /\ [][DriftNext]_vars

\* ---------------------------------------------------- pipeline: claims
Attempted(step) == step \in Range(steps)
Sent(kind) == kind \in Range(sent)

\* the run ended by sys.exit in main's try block, not by an interrupt
Finished == pc = "exited" /\ ~interrupted

\* the part of C1 that holds with notifications enabled or disabled
TrainFailureStops ==
  /\ ~results.training
  /\ SummaryLabel(results, "training") = "Failed"
  /\ ~Attempted("evaluate") /\ ~Attempted("notify")
  /\ ~Sent("training_success")
  /\ pc \in {"train_failed", "exited"}
  /\ pc = "exited" => exit_code = 1

C2_ExitZeroIffTrainAndEvaluate ==
  pc = "exited" =>
    /\ exit_code \in {0, 1}
    /\ exit_code = 0 <=> (results.training /\ results.evaluation)

\* C2 as amended: the exit code is 0 exactly when Train and Evaluate both
\* succeeded and no interrupt ended the run, whatever Drift Detection,
\* Merge and Notify did
C2_ExitCode ==
  pc = "exited" =>
    /\ exit_code \in {0, 1}
    /\ exit_code = 0 <=> (results.training /\ results.evaluation /\ ~interrupted)

\* a run exited 0 although drift detection, the merge and the notification
\* failed
C2_Witness ==
  /\ pc = "exited" /\ exit_code = 0
  /\ {"drift", "merge", "notify"} \subseteq failed
  /\ ~results.data_merge /\ ~results.notification

\* C3: without a new-data file the run records Drift Detection and Merge as
\* skipped (read at its weakest for Merge: not as Success), leaves the
\* reference dataset as it was, and attempts the training
C3_NoNewDataIsSkipped ==
  (Finished /\ new_file = Absent /\ old_before # Absent) =>
    /\ SummaryLabel(results, "drift_detection") = "Skipped"
    /\ SummaryLabel(results, "data_merge") # "Success"
    /\ old_file = old_before
    /\ Attempted("train")

\* C4: a failed Drift Detection, Merge, Evaluate or Notify step is recorded
\* as not successful and the steps after it are still attempted
C4_FailuresRecorded ==
  Finished =>
    /\ "drift" \in failed => (~results.drift_detection /\ Attempted("train"))
    /\ "merge" \in failed => (~results.data_merge /\ Attempted("train"))
    /\ "evaluate" \in failed => (~results.evaluation /\ Attempted("notify"))
    /\ "notify" \in failed => ~results.notification

\* C5: when the run has ended, however it ended, the reference dataset
\* holds what it held before the run or the fully merged result
C5_ReferenceNeverPartial ==
  pc = "exited" =>
    LET full == merge_new_data(old_before, new_file, TRUE)
    IN \/ old_file = old_before
       \/ full.err = "none" /\ old_file = to_csv(full.df)

\* ------------------------------------------------- drift detection claims
\* detect_data_drift has returned a report for two files it could read
Analyzed ==
  /\ pc = "preprocess"
  /\ old_file # Absent /\ new_file # Absent
  /\ "drift" \notin failed

Drifted(c) == drift_report[c].status = DriftStatus

\* the columns both files have, the target aside
Shared == (Range(old_file.cols) \cap Range(new_file.cols)) \ {Target}

\* C15: drift_detected is true exactly when some column's verdict is
\* Drifted; an Error verdict never sets it
C15_FlagIffSomeDrifted ==
  Analyzed => (drift_detected <=> \E c \in DOMAIN drift_report : Drifted(c))

\* the report holds an Error verdict and no Drifted one, and the flag is off
C15_Witness ==
  /\ Analyzed
  /\ \E c \in DOMAIN drift_report : drift_report[c].status = ErrorStatus
  /\ \E c \in DOMAIN drift_report : drift_report[c].status = StableStatus
  /\ ~drift_detected

\* C16: the columns with a verdict are the columns both datasets have minus
\* the target: the target never has one, a column of one dataset only has
\* none, every other one has one
C16_VerdictsAreSharedNonTarget ==
  Analyzed => DOMAIN drift_report = Shared

\* the present values of a column of a file
Values(file, c) == Present(file.rows, c)

\* the largest difference, over the sets of categories, between the shares
\* of the present values of the two samples that fall in the set, times
\* the product of the sample sizes
LargestShareGap(s1, s2) ==
  LET Gap(S) == Abs(Cardinality({i \in 1..Len(s1) : s1[i] \in S}) * Len(s2)
                    - Cardinality({i \in 1..Len(s2) : s2[i] \in S}) * Len(s1))
      sets == SUBSET (Range(s1) \cup Range(s2))
  IN Gap(CHOOSE S \in sets : \A T \in sets : Gap(T) <= Gap(S))

NumericShared == {c \in Shared : load_data(old_file).df.kind[c] = "number"}

\* C18: a numeric column whose test cannot be computed gets an Error verdict
\* and no other column loses its verdict or the flag for it; a numeric
\* column whose test succeeds is Drifted exactly when its p-value is below
\* 0.05
C18_ErrorIsPerColumn ==
  Analyzed =>
    \A c \in NumericShared :
      IF Values(old_file, c) = <<>> \/ Values(new_file, c) = <<>>
      THEN /\ c \in DOMAIN drift_report
           /\ drift_report[c].status = ErrorStatus
           /\ Shared \subseteq DOMAIN drift_report
           /\ drift_detected => \E d \in DOMAIN drift_report \ {c} : Drifted(d)
      ELSE /\ c \in DOMAIN drift_report
           /\ drift_report[c].status \in {DriftStatus, StableStatus}
           /\ Drifted(c) <=>
                100 * drift_report[c].p_value[1] < 5 * drift_report[c].p_value[2]

\* the new data has no experience at all: an Error verdict for it, a verdict
\* for the city all the same
C18_Witness ==
  /\ Analyzed
  /\ "Exp" \in NumericShared
  /\ Values(old_file, "Exp") # <<>> /\ Values(new_file, "Exp") = <<>>
  /\ drift_report["Exp"].status = ErrorStatus
  /\ "City" \in DOMAIN drift_report

\* C19: a dataset compared with itself: drift_detected is false, no verdict
\* is Drifted and every categorical TVD is 0
C19_NoDriftAgainstItself ==
  (Analyzed /\ old_file = new_file) =>
    /\ ~drift_detected
    /\ \A c \in DOMAIN drift_report :
         /\ ~Drifted(c)
         /\ "tvd" \in DOMAIN drift_report[c] => drift_report[c].tvd[1] = 0

\* a dataset of four records with two experiences and two cities, compared
\* with itself
C19_Witness ==
  /\ Analyzed /\ old_file = new_file
  /\ Len(old_file.rows) = MaxDriftRows
  /\ Cardinality(Range(Values(old_file, "Exp"))) = 2
  /\ Cardinality(Range(Values(old_file, "City"))) = 2
  /\ drift_report["Exp"].status = StableStatus
  /\ drift_report["City"].status = StableStatus

\* run_drift_detection has called detect_data_drift and it returned
AnalysisStep ==
  /\ pc = "drift" /\ pc' = "preprocess"
  /\ old_file # Absent /\ new_file # Absent
  /\ "drift" \notin failed'

\* C20, as stated: detect_data_drift changes no file and sends no
\* notification
C20_AnalysisNeverNotifies ==
  [][AnalysisStep => (sent' = sent /\ UNCHANGED <<old_file, new_file, fileVars>>)]_vars

\* C20: detect_data_drift changes no file; it sends the drift notification
\* itself when SEND_EMAIL is set and drift was detected, the no-drift one
\* when SEND_EMAIL and NOTIFY_ON_NO_DRIFT are set and none was, and nothing
\* otherwise
C20_AnalysisNotifiesWhenAsked ==
  [][AnalysisStep =>
       /\ UNCHANGED <<old_file, new_file, fileVars>>
       /\ sent' = IF SEND_EMAIL /\ drift_detected'
                  THEN Append(sent, "drift_detected")
                  ELSE IF SEND_EMAIL /\ NOTIFY_ON_NO_DRIFT
                  THEN Append(sent, "no_drift")
                  ELSE sent]_vars

\* the analysis found drift and the notification went out before the next
\* step began
C20_Witness ==
  /\ pc = "preprocess"
  /\ old_file # Absent /\ new_file # Absent /\ "drift" \notin failed
  /\ SEND_EMAIL /\ drift_detected
  /\ sent = <<"drift_detected">>

\* ------------------------------------------ notification and hand-off claims
\* send_notifications has returned to main
NotifyStep == pc = "notify" /\ pc' = "summary"

\* main has printed its summary and called sys.exit
SummaryStep == pc = "summary" /\ pc' = "exited" /\ ~interrupted'

\* C21: a notification that is refused or raises is recorded as Failed and
\* changes neither the outcome of another step nor the exit code, which the
\* summary still sets to 0 when Train and Evaluate succeeded; with
\* notifications disabled the Notify step attempts no delivery
C21_NotifyFailureIsNotFatal ==
  [][/\ NotifyStep =>
          /\ \A step \in DOMAIN results \ {"notification"} :
               results'[step] = results[step]
          /\ failed' \ {"notify"} = failed
          /\ "notify" \in failed' => ~results'.notification
          /\ exit_code' = exit_code
          /\ ~SEND_EMAIL => (sent' = sent /\ "notify" \notin failed')
     /\ (SummaryStep /\ "notify" \in failed
           /\ results.training /\ results.evaluation) => exit_code' = 0]_vars

\* only the notification failed and the run exited 0
C21_Witness ==
  /\ pc = "exited"
  /\ failed = {"notify"}
  /\ Sent("training_success")
  /\ ~results.notification
  /\ results.training /\ results.evaluation
  /\ exit_code = 0

\* C22: in a run whose training succeeded the Evaluate step reads the
\* metrics record this run's training wrote and succeeds; it never confirms
\* a record of an earlier run
C22_EvaluateReadsThisRunsMetrics ==
  (Attempted("evaluate") /\ results.training) =>
    /\ MetricsRead = "new"
    /\ results.evaluation
    /\ "evaluate" \notin failed

\* C23: after a run that no interrupt ended, the model file and the metrics
\* record belong to the same training: the model is not replaced in a run
\* whose training is reported Failed, nor without the metrics being
\* rewritten
C23_ModelAndMetricsTogether ==
  Finished =>
    /\ "train" \in failed => model_file # "new"
    /\ model_file = "new" <=> metrics_root = "new"

\* C24: with the new data cleaned, merging the same new-data file a second
\* time leaves the reference dataset as the first merge wrote it
C24_MergeIdempotent ==
  (merges = MaxMerges /\ merged.err = "none" /\ clean_new_data)
    => old_file = old_before

=============================================================================
